---- MODULE Spec2Model ----
(***************************************************************************)
(* A model of the Notesnook sync client (SyncManager / Sync,               *)
(* src/unnamed/part_000): two callers of SyncManager.start share one       *)
(* SignalR hub connection, one connection mutex, one device registry and   *)
(* one auto-sync scheduler.  JavaScript runs one callback at a time, so an *)
(* action is the code between two awaits.                                  *)
(***************************************************************************)
EXTENDS Integers, Sequences, FiniteSets, TLC

\* ------------------------------------------------------------------ bounds
\* Batches the Collector yields in one send (at most).
MaxBatches == 2
\* SendItems chunks the server streams in answer to RequestFetch (in total).
MaxChunks == 1
\* SendItems chunks the server streams in one fetch of SpecFetch.
MaxStream == 2
\* Items in one incoming chunk.
MaxItems == 2
\* Unsolicited connection drops plus cancel() calls.
MaxFaults == 1

\* The connect timeout handed to promiseTimeout, in ms.
CONNECT_TIMEOUT_MS == 30000

\* The callers of SyncManager.start.
Runs == {1, 2}
NoRun == 0

\* ------------------------------------------------------- error messages
\* A message is a sequence of text pieces; the pieces the code looks for are
\* pieces of their own, so that includes() and the regular expression act on
\* the text and not on a tag.
HUB == "HubException:"
SP == " "
NL == "\n"
CONFIRM == "Please confirm your email "
INVALID == "Invalid token."

\* s.includes(n) for a needle n given as pieces.
Includes(s, n) ==
  \E i \in 0..(Len(s) - Len(n)) : SubSeq(s, i + 1, i + Len(n)) = n

\* new Error(message) and a rejection value that is no Error.
Err(m) == [isError |-> TRUE, message |-> m]
NonErr(m) == [isError |-> FALSE, message |-> m]
NoErr == [isError |-> FALSE, message |-> <<"none">>]

\* promiseTimeout: what the race rejects with when the timer fires first.
promiseTimeout(ms) == Err(<<"Sync timed out in ", ToString(ms), "ms.">>)

SyncUnavailable == Err(<<"Could not connect to the Sync server. Please try again.">>)
DeviceNotRegistered == Err(<<"Sync device not registered.">>)
\* SignalR's own rejections: a send or invoke on a connection that is not
\* connected, an invocation cut by the connection closing, an aborted start.
NotConnected == Err(<<"Cannot send data if the connection is not in the 'Connected' State.">>)
InvocationCanceled == Err(<<"Invocation canceled due to the underlying connection being closed.">>)
StartAborted == Err(<<"The connection was stopped before the hub handshake could complete.">>)
StartFailed == Err(<<"Failed to complete negotiation with the server.">>)
\* accessTokenFactory and the transport may reject with a value that is no Error.
StartFailedValue == NonErr(<<"Failed to start the connection.">>)

\* What the server can answer an invocation with: the client library turns a
\* server-side HubException into Error("... HubException: <text>").
HubMessages ==
  { <<"An unexpected error occurred invoking 'PushItems' on the server. ", HUB, SP,
      CONFIRM, "to start syncing.">>,
    <<"An unexpected error occurred invoking 'PushItems' on the server. ", HUB, SP,
      INVALID>>,
    <<"An unexpected error occurred invoking 'PushItems' on the server. ", HUB, SP,
      "Sync limit reached.", NL, "   at ", CONFIRM>>,
    <<"An unexpected error occurred invoking 'PushItems' on the server. ", HUB, SP>> }
HubErrors == { Err(m) : m \in HubMessages }

\* ------------------------------------------ SyncManager.start: the catch
\* /HubException: (.*)/gm.exec(message): the first "HubException: " and the
\* rest of its line, or no match.
RegexExec(s) ==
  LET at == { i \in 1..(Len(s) - 1) : s[i] = HUB /\ s[i + 1] = SP }
  IN  IF at = {} THEN [matched |-> FALSE, group |-> <<>>]
      ELSE LET i == CHOOSE k \in at : \A j \in at : k <= j
               rest == SubSeq(s, i + 2, Len(s))
               nls == { j \in 1..Len(rest) : rest[j] = NL }
               stop == IF nls = {} THEN Len(rest) + 1
                       ELSE CHOOSE k \in nls : \A j \in nls : k <= j
           IN  [matched |-> TRUE, group |-> SubSeq(rest, 1, stop - 1)]

isHubException(e) == Includes(e.message, <<HUB>>)

\* actualError && actualError.length > 1 ? actualError[1] : e.message
errorText(e) ==
  LET actualError == RegexExec(e.message)
  IN  IF actualError.matched THEN actualError.group ELSE e.message

\* A faulty staleTokenText: only the email-confirmation text triggers the refresh.
staleTokenTextConfirmOnly(text) == Includes(text, <<CONFIRM>>)

\* The texts that trigger the forced token refresh.
staleTokenText(text) == Includes(text, <<CONFIRM>>) \/ Includes(text, <<INVALID>>)

\* The catch block of SyncManager.start for the error e, with the account's
\* isEmailConfirmed as read from db.user.getUser().
startCatch(e, isEmailConfirmed) ==
  IF isHubException(e)
  THEN IF staleTokenText(errorText(e)) /\ isEmailConfirmed
       THEN [kind |-> "returned", value |-> FALSE, refresh |-> TRUE, error |-> NoErr]
       ELSE [kind |-> "raised", value |-> FALSE, refresh |-> FALSE,
             error |-> Err(errorText(e))]
  ELSE [kind |-> "raised", value |-> FALSE, refresh |-> FALSE, error |-> e]

\* A faulty checkConnectionCatch: the underlying error is rethrown as it is.
checkConnectionCatchRethrow(e) == [thrown |-> TRUE, error |-> e]

\* ------------------------------------------------ Sync.checkConnection
\* The catch block of checkConnection: an Error is logged and replaced by the
\* user-facing error; any other value is only printed.
checkConnectionCatch(e) ==
  IF e.isError THEN [thrown |-> TRUE, error |-> SyncUnavailable]
  ELSE [thrown |-> FALSE, error |-> NoErr]

\* --------------------------------------------------- deserializeItem
\* An incoming item, after decryption: its JSON fields, and what the migration
\* service answers for it (mig1 for the first pass, mig2 for the second).
ItemTypes == {"note", "tag", "trash", "topic", "settings", ""}
InnerTypes == {"", "note", "topic"}
Titles == {"RED", "work"}
MigrationResults == {"skip", "changed", "unchanged"}
COLORS == {"red", "orange", "yellow"}
toLowerCase(t) == IF t = "RED" THEN "red" ELSE t

\* Fields that an item of its type does not read are left at their defaults.
AllItems ==
  { i \in [type : ItemTypes, itemType : InnerTypes, title : Titles,
           cipher : BOOLEAN, mig1 : MigrationResults, mig2 : MigrationResults] :
      /\ (i.type # "trash" => i.itemType = "")
      /\ (i.type # "tag" => i.title = "work")
      /\ (i.cipher => i.mig1 = "unchanged")
      /\ ((i.cipher \/ i.mig1 = "skip" \/ i.itemType = "") => i.mig2 = "unchanged") }

Dropped == [kept |-> FALSE, id |-> 0, type |-> "", itemType |-> "", title |-> "",
            cipher |-> FALSE, remote |-> FALSE, synced |-> FALSE, calls |-> <<>>]

\* The type the item is routed by.
resolvedType(item) ==
  IF item.type = "tag" /\ toLowerCase(item.title) \in COLORS THEN "color"
  ELSE IF item.type = "trash" /\ item.itemType # "" THEN item.itemType
  ELSE item.type

\* A faulty runsSecondPass: the inner type of a trashed item is never migrated.
runsSecondPassNever(item) == FALSE

\* since items in trash can have their own set of migrations
runsSecondPass(item) == item.type = "trash" /\ item.itemType # ""

\* if (!itemType || itemType === "topic" || itemType === "settings") return;
unresolvedType(t) == t = "" \/ t = "topic" \/ t = "settings"

\* deserializeItem: the item to merge (kept), or nothing; id is the item's id
\* (its place in the chunk) and calls lists the migrateItem calls made, each
\* <<type, context>>.
deserializeItem(item, id) ==
  LET stamped == [kept |-> TRUE, id |-> id, type |-> item.type, itemType |-> item.itemType,
                  title |-> item.title, cipher |-> item.cipher,
                  remote |-> TRUE, synced |-> TRUE, calls |-> <<>>]
      call1 == <<item.type, "sync">>
      call2 == <<item.itemType, "backup">>
  IN  IF item.cipher THEN stamped
      ELSE IF item.mig1 = "skip" THEN [Dropped EXCEPT !.calls = <<call1>>]
      ELSE IF runsSecondPass(item) /\ item.mig2 = "skip"
           THEN [Dropped EXCEPT !.calls = <<call1, call2>>]
      ELSE LET migrationResult == IF runsSecondPass(item) THEN item.mig2 ELSE item.mig1
               calls == IF runsSecondPass(item) THEN <<call1, call2>> ELSE <<call1>>
           IN  IF unresolvedType(resolvedType(item))
               THEN [Dropped EXCEPT !.calls = calls]
               ELSE [stamped EXCEPT !.synced = (migrationResult # "changed"),
                                    !.calls = calls]

\* Merger.mergeContent / mergeItemAsync / mergeItemSync: the item to persist.
mergeItem(remote) == remote

SelectKept(s) == SelectSeq(s, LAMBDA d : d.kept)

\* processChunk: what is handed to collection.put ("put" FALSE: no put at
\* all), the migrateItem calls made for each item of the chunk, and the items
\* deserializeItem returned, before the merge.
processChunk(chunk) ==
  IF chunk.type = "settings"
  THEN [put |-> FALSE, items |-> <<>>, calls |-> <<>>, deserialized |-> <<>>]
  ELSE LET all == [k \in 1..Len(chunk.items) |-> deserializeItem(chunk.items[k], k)]
           deserialized == SelectKept(all)
       IN  [put |-> TRUE,
            items |-> [k \in 1..Len(deserialized) |-> mergeItem(deserialized[k])],
            calls |-> [k \in 1..Len(all) |-> all[k].calls],
            deserialized |-> deserialized]

\* ------------------------------------------------------------- chunks
NoChunk == [type |-> "none", items |-> <<>>]
PlainNote == [type |-> "note", itemType |-> "", title |-> "work", cipher |-> FALSE,
              mig1 |-> "unchanged", mig2 |-> "unchanged"]
PlainTopic == [PlainNote EXCEPT !.type = "topic"]
ItemSeqs(S) == UNION { [1..n -> S] : n \in 1..MaxItems }
\* The chunk the server streams in the runs of Spec (SpecItems has them all).
MainChunks == { [type |-> "note", items |-> <<PlainNote, PlainTopic>>] }
\* The chunks the server streams in SpecFetch: of every length, of a type that
\* is put and of the type that is not.
StreamChunks ==
  { [type |-> t, items |-> [i \in 1..n |-> PlainNote]] :
      t \in {"note", "settings"}, n \in 1..MaxItems }
\* Every chunk, for the claims about deserializeItem and processChunk.
AllChunks ==
  { [type |-> t, items |-> s] : t \in {"note", "settings"}, s \in ItemSeqs(AllItems) }

\* -------------------------------------------------------------- state
VARIABLES
  conn,                 \* connection.state
  startsInFlight,       \* connection.start() calls that have not settled
  mutex,                \* syncConnectionMutex: the run holding it, or NoRun
  closeHandlers,        \* callbacks registered with connection.onclose
  sendItemsHandler,     \* the run whose "SendItems" handler is registered, or NoRun
  storedDeviceId,       \* whether devices.get() finds a device id
  autoSyncing,          \* whether the auto-sync scheduler is running
  syncAbortedLastClose, \* syncAborted publications made by the latest close
  faults,               \* drops, cancels and logouts so far
  inbox,                \* a SendItems chunk received and not yet handled
  hpc,                  \* the SendItems handler: "idle" or "processing"
  hOwner,               \* the run whose handler closure is processing
  chunks,               \* chunks the server has sent
  lastPut,              \* the latest collection.put: its chunk, its items, the migrateItem calls
  pc,                   \* per run: the await it is at
  opt,                  \* per run: SyncOptions, and whether it runs under acquireLock
  ccFrom,               \* per run: the caller of checkConnection
  deviceId,             \* per run: init's deviceId
  log,                  \* per run: what it has done, in order
  nBatches,             \* per run: batches the Collector yields in its send
  cursor,               \* per run: batches of the for-await loop already handled
  isSyncInitialized,    \* per run: send's isSyncInitialized
  done,                 \* per run: send's done
  acks,                 \* per run: acknowledgments of PushItems received
  count,                \* per run: fetch's count
  err,                  \* per run: the error in flight to SyncManager.start's catch
  outcome               \* per run: what the caller of start / acquireLock got

connVars == <<conn, startsInFlight, mutex, syncAbortedLastClose>>
handlerVars == <<inbox, hpc, hOwner, chunks, lastPut>>
sendVars == <<nBatches, cursor, isSyncInitialized, done, acks>>
vars == <<conn, startsInFlight, mutex, closeHandlers, sendItemsHandler, storedDeviceId,
          autoSyncing, syncAbortedLastClose, faults, inbox, hpc, hOwner,
          chunks, lastPut, pc, opt, ccFrom, deviceId, log, nBatches, cursor,
          isSyncInitialized, done, acks, count, err, outcome>>

\* SyncOptions, and whether the sync is the callback of acquireLock (a manual,
\* full sync).
Options ==
  { o \in [type : {"full", "fetch", "send"}, force : BOOLEAN, lock : BOOLEAN] :
      o.lock => o.type = "full" }
NoOutcome == [kind |-> "none", value |-> FALSE, error |-> NoErr]
Ev(e, n) == [ev |-> e, n |-> n]

Init ==
  /\ conn = "Disconnected"
  /\ startsInFlight = 0
  /\ mutex = NoRun
  /\ closeHandlers = 0
  /\ sendItemsHandler = NoRun
  /\ storedDeviceId \in BOOLEAN
  /\ autoSyncing = FALSE
  /\ syncAbortedLastClose = 0
  /\ faults = 0
  /\ inbox = NoChunk
  /\ hpc = "idle"
  /\ hOwner = NoRun
  /\ chunks = 0
  /\ lastPut = [chunk |-> NoChunk, items |-> <<>>, calls |-> <<>>, deserialized |-> <<>>]
  /\ pc = [r \in Runs |-> "idle"]
  /\ opt = [r \in Runs |-> [type |-> "full", force |-> FALSE, lock |-> FALSE]]
  /\ ccFrom = [r \in Runs |-> "init"]
  /\ deviceId = [r \in Runs |-> FALSE]
  /\ log = [r \in Runs |-> <<>>]
  /\ nBatches = [r \in Runs |-> 0]
  /\ cursor = [r \in Runs |-> 0]
  /\ isSyncInitialized = [r \in Runs |-> FALSE]
  /\ done = [r \in Runs |-> 0]
  /\ acks = [r \in Runs |-> 0]
  /\ count = [r \in Runs |-> 0]
  /\ err = [r \in Runs |-> NoErr]
  /\ outcome = [r \in Runs |-> NoOutcome]

\* --------------------------------------------------- the connection
\* The awaits that a close of the connection rejects: an invocation waiting for
\* its answer, and the start that checkConnection is waiting for.
Interrupted(q) ==
  \/ conn = "Connected" /\ pc[q] \in {"fetch_wait", "push_wait"}
  \/ conn = "Connecting" /\ pc[q] = "cc_start"

InterruptError(q) ==
  IF pc[q] = "cc_start" THEN checkConnectionCatch(StartAborted).error
  ELSE InvocationCanceled

\* connection.stop(), and an unsolicited close: the state becomes Disconnected,
\* a start in flight is aborted, the onclose callbacks run when the connection
\* was connected (each publishes syncAborted), and the pending awaits reject.
\* p and m are pc and mutex as the caller leaves them.
ConnectionClose(p, m) ==
  /\ conn' = "Disconnected"
  /\ startsInFlight' = 0
  /\ syncAbortedLastClose' = IF conn = "Connected" THEN closeHandlers
                             ELSE syncAbortedLastClose
  /\ pc' = [q \in Runs |-> IF Interrupted(q) THEN "catch" ELSE p[q]]
  /\ err' = [q \in Runs |-> IF Interrupted(q) THEN InterruptError(q) ELSE err[q]]
  /\ mutex' = IF \E q \in Runs : Interrupted(q) /\ pc[q] = "cc_start" THEN NoRun ELSE m

\* A faulty CCReturnPc: init does not look at isForceSync.
CCReturnPcIgnoresForce(r) ==
  CASE ccFrom[r] = "init" -> "init_get"
    [] ccFrom[r] = "fetch" -> "fetch_key"
    [] OTHER -> "push_invoke"

\* Where a run goes on when its checkConnection returns.
CCReturnPc(r) ==
  CASE ccFrom[r] = "init" -> IF opt[r].force THEN "init_unreg" ELSE "init_get"
    [] ccFrom[r] = "fetch" -> "fetch_key"
    [] OTHER -> "push_invoke"

\* A faulty AfterInitPc: a run that sends goes to send straight after init.
AfterInitPcSendFirst(r) ==
  IF opt[r].type \in {"send", "full"} THEN "send_begin" ELSE "fetch_cc"

\* Where a run goes on after init, and after fetch.
AfterInitPc(r) ==
  IF opt[r].type \in {"fetch", "full"} THEN "fetch_cc"
  ELSE IF opt[r].type \in {"send", "full"} THEN "send_begin" ELSE "stop"
AfterFetchPc(r) ==
  IF opt[r].type \in {"send", "full"} THEN "send_begin" ELSE "stop"

\* ----------------------------------- SyncManager.start and acquireLock
\* AutoSync.start() / AutoSync.stop(): resume and pause the scheduler.
autoSyncStart == autoSyncing' = TRUE
autoSyncStop == autoSyncing' = FALSE

\* acquireLock: this.sync.autoSync.stop(), then the callback (a manual sync).
acquireLock(r, O) ==
  /\ pc[r] = "idle"
  /\ \E o \in O :
       /\ o.lock
       /\ opt' = [opt EXCEPT ![r] = o]
  /\ autoSyncStop
  /\ log' = [log EXCEPT ![r] = Append(@, Ev("lock.autoSync.stop", 0))]
  /\ pc' = [pc EXCEPT ![r] = "locked"]
  /\ UNCHANGED <<connVars, closeHandlers, sendItemsHandler, storedDeviceId, faults, handlerVars, ccFrom, deviceId, sendVars, count, err, outcome>>

\* SyncManager.start: await this.sync.autoSync.start(), then this.sync.start.
start(r, O) ==
  /\ \/ /\ pc[r] = "idle"
        /\ \E o \in O :
             /\ ~o.lock
             /\ opt' = [opt EXCEPT ![r] = o]
     \/ /\ pc[r] = "locked"
        /\ UNCHANGED opt
  /\ autoSyncStart
  /\ log' = [log EXCEPT ![r] = Append(@, Ev("start.autoSync.start", 0))]
  /\ pc' = [pc EXCEPT ![r] = "gate"]
  /\ UNCHANGED <<connVars, closeHandlers, sendItemsHandler, storedDeviceId, faults, handlerVars, ccFrom, deviceId, sendVars, count, err, outcome>>

\* A faulty afterGateDisabled: the return after connection.stop() is missing.
afterGateDisabledContinue == "user"

\* await this.connection.stop(); return;
afterGateDisabled == "ret"

\* if (!(await this.db.user.getUser())) return;
afterNoUser == "ret"

\* Sync.start: checkSyncStatus(SYNC_CHECK_IDS.sync); disabled: stop and return.
syncGate(r) ==
  /\ pc[r] = "gate"
  /\ \E enabled \in BOOLEAN :
       IF enabled
       THEN /\ pc' = [pc EXCEPT ![r] = "user"]
            /\ UNCHANGED <<connVars, err, log>>
       ELSE /\ ConnectionClose([pc EXCEPT ![r] = afterGateDisabled], mutex)
            /\ log' = [log EXCEPT ![r] = Append(@, Ev("disabled", 0))]
  /\ UNCHANGED <<closeHandlers, sendItemsHandler, storedDeviceId, autoSyncing, faults, handlerVars, opt, ccFrom, deviceId, sendVars, count, outcome>>

\* Sync.start: no user: return. Otherwise register the onclose callback and
\* enter init, which begins with checkConnection.
userGate(r) ==
  /\ pc[r] = "user"
  /\ \E user \in BOOLEAN :
       IF user
       THEN /\ closeHandlers' = closeHandlers + 1
            /\ pc' = [pc EXCEPT ![r] = "cc_acquire"]
            /\ ccFrom' = [ccFrom EXCEPT ![r] = "init"]
            /\ UNCHANGED log
       ELSE /\ pc' = [pc EXCEPT ![r] = afterNoUser]
            /\ log' = [log EXCEPT ![r] = Append(@, Ev("nouser", 0))]
            /\ UNCHANGED <<closeHandlers, ccFrom>>
  /\ UNCHANGED <<connVars, sendItemsHandler, storedDeviceId, autoSyncing, faults, handlerVars, opt, deviceId, sendVars, count, err, outcome>>
\* ------------------------------------------------ Sync.checkConnection
\* A faulty mutexFree: checkConnection's body is not run under the mutex.
mutexAlwaysFree == TRUE

\* syncConnectionMutex.runExclusive lets one caller in at a time.
mutexFree == mutex = NoRun

\* checkConnection, entered: connected: nothing to do. Anything but
\* disconnected: await connection.stop() first. Then connection.start(),
\* awaited under promiseTimeout.
checkConnection(r) ==
  /\ pc[r] = "cc_acquire"
  /\ mutexFree
  /\ CASE conn = "Connected" ->
            /\ pc' = [pc EXCEPT ![r] = CCReturnPc(r)]
            /\ UNCHANGED <<connVars, err, log>>
       [] conn = "Disconnected" ->
            /\ conn' = "Connecting"
            /\ startsInFlight' = startsInFlight + 1
            /\ mutex' = r
            /\ pc' = [pc EXCEPT ![r] = "cc_start"]
            /\ log' = [log EXCEPT ![r] = Append(@, Ev("connection.start", 0))]
            /\ UNCHANGED <<syncAbortedLastClose, err>>
       [] OTHER ->
            /\ ConnectionClose([pc EXCEPT ![r] = "cc_stop"], r)
            /\ UNCHANGED log
  /\ UNCHANGED <<closeHandlers, sendItemsHandler, storedDeviceId, autoSyncing, faults, handlerVars, opt, ccFrom, deviceId, sendVars, count, outcome>>

\* checkConnection after its connection.stop(): connection.start(). A start
\* on a connection that is not disconnected rejects at once.
checkConnectionStart(r) ==
  /\ pc[r] = "cc_stop"
  /\ IF conn = "Disconnected"
     THEN /\ conn' = "Connecting"
          /\ startsInFlight' = startsInFlight + 1
          /\ pc' = [pc EXCEPT ![r] = "cc_start"]
          /\ log' = [log EXCEPT ![r] = Append(@, Ev("connection.start", 0))]
          /\ UNCHANGED <<mutex, err>>
     ELSE /\ pc' = [pc EXCEPT ![r] = "catch"]
          /\ err' = [err EXCEPT ![r] = checkConnectionCatch(StartFailed).error]
          /\ mutex' = NoRun
          /\ UNCHANGED <<conn, startsInFlight, log>>
  /\ UNCHANGED <<syncAbortedLastClose, closeHandlers, sendItemsHandler, storedDeviceId,
                 autoSyncing, faults, handlerVars, opt, ccFrom, deviceId,
                 sendVars, count, outcome>>

\* The start that checkConnection awaits settles: connected, or rejected with
\* e. The mutex is released either way; a rejection the catch block does not
\* rethrow lets checkConnection return.
startSettles(r) ==
  /\ pc[r] = "cc_start"
  /\ conn = "Connecting"
  /\ startsInFlight' = startsInFlight - 1
  /\ mutex' = NoRun
  /\ \/ /\ conn' = "Connected"
        /\ pc' = [pc EXCEPT ![r] = CCReturnPc(r)]
        /\ UNCHANGED err
     \/ \E e \in {StartFailed, StartFailedValue} :
          /\ conn' = "Disconnected"
          /\ IF checkConnectionCatch(e).thrown
             THEN /\ pc' = [pc EXCEPT ![r] = "catch"]
                  /\ err' = [err EXCEPT ![r] = checkConnectionCatch(e).error]
             ELSE /\ pc' = [pc EXCEPT ![r] = CCReturnPc(r)]
                  /\ UNCHANGED err
  /\ UNCHANGED <<syncAbortedLastClose, closeHandlers, sendItemsHandler, storedDeviceId,
                 autoSyncing, faults, handlerVars, opt, ccFrom, deviceId, log,
                 sendVars, count, outcome>>

\* promiseTimeout's timer fires first: checkConnection's await rejects with the
\* timeout error; the start itself stays in flight.
connectTimeout(r) ==
  /\ pc[r] = "cc_start"
  /\ conn = "Connecting"
  /\ LET caught == checkConnectionCatch(promiseTimeout(CONNECT_TIMEOUT_MS))
     IN  IF caught.thrown
         THEN /\ pc' = [pc EXCEPT ![r] = "catch"]
              /\ err' = [err EXCEPT ![r] = caught.error]
         ELSE /\ pc' = [pc EXCEPT ![r] = CCReturnPc(r)]
              /\ UNCHANGED err
  /\ mutex' = NoRun
  /\ log' = [log EXCEPT ![r] = Append(@, Ev("timeout", 0))]
  /\ UNCHANGED <<conn, startsInFlight, syncAbortedLastClose, closeHandlers,
                 sendItemsHandler, storedDeviceId, autoSyncing, faults,
                 handlerVars, opt, ccFrom, deviceId, sendVars, count, outcome>>

\* A start left in flight by a timeout settles with nobody awaiting it.
lateStartSettles ==
  /\ conn = "Connecting"
  /\ \A r \in Runs : pc[r] # "cc_start"
  /\ startsInFlight' = startsInFlight - 1
  /\ conn' \in {"Connected", "Disconnected"}
  /\ UNCHANGED <<mutex, syncAbortedLastClose, closeHandlers, sendItemsHandler,
                 storedDeviceId, autoSyncing, faults, handlerVars, pc, opt,
                 ccFrom, deviceId, log, sendVars, count, err, outcome>>

\* ------------------------------------------------------------ Sync.init
\* SyncDevices.unregister(): the stored device id is gone.
initUnregister(r) ==
  /\ pc[r] = "init_unreg"
  /\ storedDeviceId' = FALSE
  /\ pc' = [pc EXCEPT ![r] = "init_reg"]
  /\ log' = [log EXCEPT ![r] = Append(@, Ev("devices.unregister", 0))]
  /\ UNCHANGED <<connVars, closeHandlers, sendItemsHandler, autoSyncing, faults, handlerVars, opt, ccFrom, deviceId, sendVars, count, err,
                 outcome>>

\* SyncDevices.register(): stores a device id, or leaves none obtainable.
initRegister(r) ==
  /\ pc[r] \in {"init_reg", "init_reg2"}
  /\ \E stored \in BOOLEAN : storedDeviceId' = (storedDeviceId \/ stored)
  /\ pc' = [pc EXCEPT ![r] = IF pc[r] = "init_reg" THEN "init_get" ELSE "init_get2"]
  /\ log' = [log EXCEPT ![r] = Append(@, Ev("devices.register", 0))]
  /\ UNCHANGED <<connVars, closeHandlers, sendItemsHandler, autoSyncing, faults, handlerVars, opt, ccFrom, deviceId, sendVars, count, err,
                 outcome>>

\* let deviceId = await this.devices.get(): found: init returns it. Not found
\* the first time: register and read again. Not found again: throw. (The log
\* keeps each read: 1 when an id was found.)
initGet(r) ==
  /\ pc[r] \in {"init_get", "init_get2"}
  /\ deviceId' = [deviceId EXCEPT ![r] = storedDeviceId]
  /\ IF storedDeviceId
     THEN /\ pc' = [pc EXCEPT ![r] = IF AfterInitPc(r) = "fetch_cc" THEN "cc_acquire"
                                     ELSE AfterInitPc(r)]
          /\ ccFrom' = [ccFrom EXCEPT ![r] = IF AfterInitPc(r) = "fetch_cc" THEN "fetch"
                                             ELSE @]
          /\ log' = [log EXCEPT ![r] = Append(Append(@, Ev("devices.get", 1)), Ev("init", 0))]
          /\ UNCHANGED err
     ELSE IF pc[r] = "init_get"
     THEN /\ pc' = [pc EXCEPT ![r] = "init_reg2"]
          /\ log' = [log EXCEPT ![r] = Append(@, Ev("devices.get", 0))]
          /\ UNCHANGED <<ccFrom, err>>
     ELSE /\ pc' = [pc EXCEPT ![r] = "catch"]
          /\ err' = [err EXCEPT ![r] = DeviceNotRegistered]
          /\ log' = [log EXCEPT ![r] = Append(@, Ev("devices.get", 0))]
          /\ UNCHANGED ccFrom
  /\ UNCHANGED <<connVars, closeHandlers, sendItemsHandler, storedDeviceId, autoSyncing,
                 faults, handlerVars, opt, sendVars, count, outcome>>
\* A faulty afterKeyMissing: a missing encryption key fails the run.
afterKeyMissingThrows(r) == "catch"

\* fetch without an encryption key: return; (the run goes on after fetch).
afterKeyMissing(r) == AfterFetchPc(r)

\* ----------------------------------------------------------- Sync.fetch
\* fetch after its checkConnection: no encryption key: publish
\* userSessionExpired and return. Otherwise replace the "SendItems" handler
\* and invoke RequestFetch, which rejects at once when not connected.
fetch(r) ==
  /\ pc[r] = "fetch_key"
  /\ \E key \in BOOLEAN :
       IF ~key
       THEN /\ pc' = [pc EXCEPT ![r] = afterKeyMissing(r)]
            /\ log' = [log EXCEPT ![r] =
                         Append(Append(@, Ev("userSessionExpired", 0)), Ev("fetch", 0))]
            /\ UNCHANGED <<sendItemsHandler, count, err>>
       ELSE /\ sendItemsHandler' = r
            /\ count' = [count EXCEPT ![r] = 0]
            /\ IF conn = "Connected"
               THEN /\ pc' = [pc EXCEPT ![r] = "fetch_wait"]
                    /\ log' = [log EXCEPT ![r] = Append(@, Ev("RequestFetch", 0))]
                    /\ UNCHANGED err
               ELSE /\ pc' = [pc EXCEPT ![r] = "catch"]
                    /\ err' = [err EXCEPT ![r] = NotConnected]
                    /\ UNCHANGED log
  /\ UNCHANGED <<connVars, closeHandlers, storedDeviceId, autoSyncing, faults,
                 handlerVars, opt, ccFrom, deviceId, sendVars, outcome>>

\* The server streams a chunk while a RequestFetch is pending, max chunks at
\* most; it waits for the handler's answer before the next one.
serverSendItems(c, max) ==
  /\ \E r \in Runs : pc[r] = "fetch_wait"
  /\ conn = "Connected"
  /\ inbox = NoChunk
  /\ chunks < max
  /\ inbox' = c
  /\ chunks' = chunks + 1
  /\ UNCHANGED <<connVars, closeHandlers, sendItemsHandler, storedDeviceId, autoSyncing,
                 faults, hpc, hOwner, lastPut, pc, opt, ccFrom, deviceId, log,
                 sendVars, count, err, outcome>>

\* A faulty handler test: every batch is taken for processing.
isConnectedAlways == TRUE

\* The test the "SendItems" handler makes on entry: connection.state is
\* Connected.
isConnected == conn = "Connected"

\* The "SendItems" handler is entered: no handler registered: the message is
\* dropped. Not connected: return false. Otherwise processChunk begins.
onSendItems ==
  /\ inbox # NoChunk
  /\ hpc = "idle"
  /\ IF sendItemsHandler = NoRun
     THEN /\ inbox' = NoChunk
          /\ UNCHANGED <<hpc, hOwner, log>>
     ELSE IF ~isConnected
     THEN /\ inbox' = NoChunk
          /\ log' = [log EXCEPT ![sendItemsHandler] = Append(@, Ev("discarded", 0))]
          /\ UNCHANGED <<hpc, hOwner>>
     ELSE /\ hpc' = "processing"
          /\ hOwner' = sendItemsHandler
          /\ UNCHANGED <<inbox, log>>
  /\ UNCHANGED <<connVars, closeHandlers, sendItemsHandler, storedDeviceId, autoSyncing,
                 faults, chunks, lastPut, pc, opt, ccFrom, deviceId, sendVars,
                 count, err, outcome>>

\* A faulty count: the items of the latest chunk only.
downloadedChunkOnly(r, chunk) == Len(chunk.items)

\* count += chunk.items.length
downloaded(r, chunk) == count[r] + Len(chunk.items)

\* The handler after processChunk: collection.put(items), then the count and
\* the progress event; return true.
onSendItemsProcessed ==
  /\ hpc = "processing"
  /\ LET res == processChunk(inbox)
         n == downloaded(hOwner, inbox)
     IN  /\ lastPut' = IF res.put
                     THEN [chunk |-> inbox, items |-> res.items, calls |-> res.calls,
                           deserialized |-> res.deserialized]
                     ELSE lastPut
         /\ count' = [count EXCEPT ![hOwner] = n]
         /\ log' = [log EXCEPT ![hOwner] =
                      (IF res.put THEN Append(@, Ev("put", Len(res.items))) ELSE @)
                        \o <<Ev("progress", n)>>]
  /\ hpc' = "idle"
  /\ hOwner' = NoRun
  /\ inbox' = NoChunk
  /\ UNCHANGED <<connVars, closeHandlers, sendItemsHandler, storedDeviceId, autoSyncing,
                 faults, chunks, pc, opt, ccFrom, deviceId, sendVars, err,
                 outcome>>

\* processChunk throws (decryptMulti, a merge or put fails): the handler's
\* promise rejects, which the connection logs; nothing is counted.
onSendItemsFailed ==
  /\ hpc = "processing"
  /\ log' = [log EXCEPT ![hOwner] = Append(@, Ev("processChunk.failed", 0))]
  /\ hpc' = "idle"
  /\ hOwner' = NoRun
  /\ inbox' = NoChunk
  /\ UNCHANGED <<connVars, closeHandlers, sendItemsHandler, storedDeviceId, autoSyncing,
                 faults, chunks, lastPut, pc, opt, ccFrom, deviceId, sendVars,
                 count, err, outcome>>

\* RequestFetch answers: connection.off("SendItems"), and fetch returns. (The
\* vault key an answer may carry goes to the vault, which is not part of the
\* state here.)
fetchResponse(r) ==
  /\ pc[r] = "fetch_wait"
  /\ conn = "Connected"
  /\ inbox = NoChunk
  /\ sendItemsHandler' = NoRun
  /\ pc' = [pc EXCEPT ![r] = AfterFetchPc(r)]
  /\ log' = [log EXCEPT ![r] = Append(@, Ev("fetch", 0))]
  /\ UNCHANGED <<connVars, closeHandlers, storedDeviceId, autoSyncing, faults,
                 handlerVars, opt, ccFrom, deviceId, sendVars, count, err, outcome>>

\* The server fails an invocation: the invoke rejects with a HubException text.
serverError(r, E) ==
  /\ pc[r] \in {"fetch_wait", "push_wait"}
  /\ conn = "Connected"
  /\ \E e \in E : err' = [err EXCEPT ![r] = e]
  /\ pc' = [pc EXCEPT ![r] = "catch"]
  /\ UNCHANGED <<connVars, closeHandlers, sendItemsHandler, storedDeviceId, autoSyncing,
                 faults, handlerVars, opt, ccFrom, deviceId, log, sendVars,
                 count, outcome>>

\* ------------------------------------------------------------ Sync.send
\* send after uploadAttachments: the Collector's batches for this send.
send(r, N) ==
  /\ pc[r] = "send_begin"
  /\ \E n \in N : nBatches' = [nBatches EXCEPT ![r] = n]
  /\ cursor' = [cursor EXCEPT ![r] = 0]
  /\ isSyncInitialized' = [isSyncInitialized EXCEPT ![r] = FALSE]
  /\ done' = [done EXCEPT ![r] = 0]
  /\ log' = [log EXCEPT ![r] = Append(@, Ev("collect", nBatches'[r]))]
  /\ pc' = [pc EXCEPT ![r] = "send_loop"]
  /\ UNCHANGED <<connVars, closeHandlers, sendItemsHandler, storedDeviceId, autoSyncing,
                 faults, handlerVars, opt, ccFrom, deviceId, acks, count, err, outcome>>

\* A faulty needsInitializePush: InitializePush goes before every batch.
needsInitializePushAlways(r) == TRUE

\* if (!isSyncInitialized)
needsInitializePush(r) == ~isSyncInitialized[r]

\* if (!isSyncInitialized) return false; ... return true;
sendResult(r) == isSyncInitialized[r]

\* The for-await loop takes the next batch: InitializePush before the first
\* one, then pushItem, which begins with checkConnection. A connection.send
\* rejects when not connected.
sendNextBatch(r) ==
  /\ pc[r] = "send_loop"
  /\ cursor[r] < nBatches[r]
  /\ IF needsInitializePush(r)
     THEN IF conn = "Connected"
          THEN /\ log' = [log EXCEPT ![r] = Append(@, Ev("InitializePush", 0))]
               /\ isSyncInitialized' = [isSyncInitialized EXCEPT ![r] = TRUE]
               /\ pc' = [pc EXCEPT ![r] = "cc_acquire"]
               /\ ccFrom' = [ccFrom EXCEPT ![r] = "push"]
               /\ UNCHANGED err
          ELSE /\ pc' = [pc EXCEPT ![r] = "catch"]
               /\ err' = [err EXCEPT ![r] = NotConnected]
               /\ UNCHANGED <<log, isSyncInitialized, ccFrom>>
     ELSE /\ pc' = [pc EXCEPT ![r] = "cc_acquire"]
          /\ ccFrom' = [ccFrom EXCEPT ![r] = "push"]
          /\ UNCHANGED <<log, isSyncInitialized, err>>
  /\ UNCHANGED <<connVars, closeHandlers, sendItemsHandler, storedDeviceId, autoSyncing,
                 faults, handlerVars, opt, deviceId, nBatches, cursor, done, acks,
                 count, outcome>>

\* pushItem after its checkConnection: invoke PushItems with the batch.
pushItem(r) ==
  /\ pc[r] = "push_invoke"
  /\ IF conn = "Connected"
     THEN /\ pc' = [pc EXCEPT ![r] = "push_wait"]
          /\ log' = [log EXCEPT ![r] = Append(@, Ev("PushItems", cursor[r] + 1))]
          /\ UNCHANGED err
     ELSE /\ pc' = [pc EXCEPT ![r] = "catch"]
          /\ err' = [err EXCEPT ![r] = NotConnected]
          /\ UNCHANGED log
  /\ UNCHANGED <<connVars, closeHandlers, sendItemsHandler, storedDeviceId, autoSyncing,
                 faults, handlerVars, opt, ccFrom, deviceId, sendVars, count,
                 outcome>>

\* (await this.connection.invoke("PushItems", deviceId, item)) === 1
pushItemResult(v) == v = 1

\* A faulty pushAcknowledged: a batch the server did not accept fails the send.
pushAcknowledgedOrThrow(r) ==
  /\ pc[r] = "push_wait"
  /\ conn = "Connected"
  /\ \E v \in {0, 1} :
       IF pushItemResult(v)
       THEN /\ done' = [done EXCEPT ![r] = @ + 1]
            /\ cursor' = [cursor EXCEPT ![r] = @ + 1]
            /\ pc' = [pc EXCEPT ![r] = "send_loop"]
            /\ UNCHANGED err
       ELSE /\ pc' = [pc EXCEPT ![r] = "catch"]
            /\ err' = [err EXCEPT ![r] = Err(<<"Failed to push batch.">>)]
            /\ UNCHANGED <<done, cursor>>
  /\ acks' = [acks EXCEPT ![r] = @ + 1]
  /\ UNCHANGED <<connVars, closeHandlers, sendItemsHandler, storedDeviceId, autoSyncing,
                 faults, handlerVars, opt, ccFrom, deviceId, log, nBatches,
                 isSyncInitialized, count, outcome>>

\* The server acknowledges the batch with v: counted when pushItem's result
\* is true, logged as failed otherwise; the loop goes on either way.
pushAcknowledged(r) ==
  /\ pc[r] = "push_wait"
  /\ conn = "Connected"
  /\ \E v \in {0, 1} :
       done' = [done EXCEPT ![r] = IF pushItemResult(v) THEN @ + 1 ELSE @]
  /\ acks' = [acks EXCEPT ![r] = @ + 1]
  /\ cursor' = [cursor EXCEPT ![r] = @ + 1]
  /\ pc' = [pc EXCEPT ![r] = "send_loop"]
  /\ UNCHANGED <<connVars, closeHandlers, sendItemsHandler, storedDeviceId, autoSyncing,
                 faults, handlerVars, opt, ccFrom, deviceId, log, nBatches,
                 isSyncInitialized, count, err, outcome>>

\* The loop is over: nothing initialized: return false. Otherwise send
\* PushCompleted and return true.
sendCompleted(r) ==
  /\ pc[r] = "send_loop"
  /\ cursor[r] >= nBatches[r]
  /\ IF ~sendResult(r)
     THEN /\ pc' = [pc EXCEPT ![r] = "stop"]
          /\ log' = [log EXCEPT ![r] = Append(@, Ev("send", 0))]
          /\ UNCHANGED err
     ELSE IF conn = "Connected"
     THEN /\ pc' = [pc EXCEPT ![r] = "stop"]
          /\ log' = [log EXCEPT ![r] =
                       Append(Append(@, Ev("PushCompleted", 0)), Ev("send", 1))]
          /\ UNCHANGED err
     ELSE /\ pc' = [pc EXCEPT ![r] = "catch"]
          /\ err' = [err EXCEPT ![r] = NotConnected]
          /\ UNCHANGED log
  /\ UNCHANGED <<connVars, closeHandlers, sendItemsHandler, storedDeviceId, autoSyncing,
                 faults, handlerVars, opt, ccFrom, deviceId, sendVars, count,
                 outcome>>
\* A faulty stop: a sync that fetched nothing and sent nothing is not finalized.
stopWhenChanged(r) ==
  /\ pc[r] = "stop"
  /\ log' = [log EXCEPT ![r] =
               IF count[r] > 0 \/ isSyncInitialized[r]
               THEN Append(Append(@, Ev("lastSynced", 0)), Ev("syncCompleted", 0))
               ELSE @]
  /\ pc' = [pc EXCEPT ![r] = "gate2"]
  /\ UNCHANGED <<connVars, closeHandlers, sendItemsHandler, storedDeviceId, autoSyncing,
                 faults, handlerVars, opt, ccFrom, deviceId, sendVars, count,
                 err, outcome>>

\* ------------------------------------------------------------ Sync.stop
\* stop: refresh the monographs, write lastSynced, publish syncCompleted.
stop(r) ==
  /\ pc[r] = "stop"
  /\ log' = [log EXCEPT ![r] =
               Append(Append(@, Ev("lastSynced", 0)), Ev("syncCompleted", 0))]
  /\ pc' = [pc EXCEPT ![r] = "gate2"]
  /\ UNCHANGED <<connVars, closeHandlers, sendItemsHandler, storedDeviceId, autoSyncing,
                 faults, handlerVars, opt, ccFrom, deviceId, sendVars, count,
                 err, outcome>>

\* Sync.start's end: checkSyncStatus(SYNC_CHECK_IDS.autoSync); disabled: stop
\* the connection.
autoSyncGate(r) ==
  /\ pc[r] = "gate2"
  /\ \E enabled \in BOOLEAN :
       IF enabled
       THEN /\ pc' = [pc EXCEPT ![r] = "ret"]
            /\ UNCHANGED <<connVars, err>>
       ELSE ConnectionClose([pc EXCEPT ![r] = "ret"], mutex)
  /\ UNCHANGED <<closeHandlers, sendItemsHandler, storedDeviceId, autoSyncing, faults, handlerVars, opt, ccFrom, deviceId, log, sendVars, count,
                 outcome>>

\* Where the caller of SyncManager.start is: acquireLock's finally, or done.
AfterStartPc(r) == IF opt[r].lock THEN "finally" ELSE "done"

\* SyncManager.start: this.sync.start returned: return true.
startReturns(r) ==
  /\ pc[r] = "ret"
  /\ outcome' = [outcome EXCEPT ![r] =
                   [kind |-> "returned", value |-> TRUE, error |-> NoErr]]
  /\ pc' = [pc EXCEPT ![r] = AfterStartPc(r)]
  /\ UNCHANGED <<connVars, closeHandlers, sendItemsHandler, storedDeviceId, autoSyncing,
                 faults, handlerVars, opt, ccFrom, deviceId, log, sendVars,
                 count, err>>

\* SyncManager.start: the catch block. Whether the account is confirmed matters
\* for a HubException only, and the log keeps it for one; refreshToken 1 is
\* _refreshToken(true).
startCatches(r) ==
  /\ pc[r] = "catch"
  /\ \E isEmailConfirmed \in IF isHubException(err[r]) THEN BOOLEAN ELSE {FALSE} :
       LET res == startCatch(err[r], isEmailConfirmed)
       IN  /\ outcome' = [outcome EXCEPT ![r] =
                            [kind |-> res.kind, value |-> res.value, error |-> res.error]]
           /\ log' = [log EXCEPT ![r] =
                        Append(@, Ev("catch", IF isEmailConfirmed THEN 1 ELSE 0))
                          \o (IF res.refresh THEN <<Ev("refreshToken", 1)>> ELSE <<>>)]
  /\ pc' = [pc EXCEPT ![r] = AfterStartPc(r)]
  /\ UNCHANGED <<connVars, closeHandlers, sendItemsHandler, storedDeviceId, autoSyncing,
                 faults, handlerVars, opt, ccFrom, deviceId, sendVars, count,
                 err>>

\* A faulty acquireLockFinally: the scheduler is restarted after the callback
\* returned, not after it threw (no finally).
acquireLockFinallyOnSuccess(r) ==
  /\ pc[r] = "finally"
  /\ IF outcome[r].kind = "raised"
     THEN UNCHANGED <<autoSyncing, log>>
     ELSE /\ autoSyncStart
          /\ log' = [log EXCEPT ![r] = Append(@, Ev("lock.autoSync.start", 0))]
  /\ pc' = [pc EXCEPT ![r] = "done"]
  /\ UNCHANGED <<connVars, closeHandlers, sendItemsHandler, storedDeviceId, faults,
                 handlerVars, opt, ccFrom, deviceId, sendVars, count, err, outcome>>

\* acquireLock: finally { await this.sync.autoSync.start() }; what the
\* callback returned or threw goes on to the caller.
acquireLockFinally(r) ==
  /\ pc[r] = "finally"
  /\ autoSyncStart
  /\ log' = [log EXCEPT ![r] = Append(@, Ev("lock.autoSync.start", 0))]
  /\ pc' = [pc EXCEPT ![r] = "done"]
  /\ UNCHANGED <<connVars, closeHandlers, sendItemsHandler, storedDeviceId, faults, handlerVars, opt, ccFrom, deviceId, sendVars, count, err,
                 outcome>>

\* ---------------------------------------------------------------- faults
\* A sync is under way: a caller is between the sync gate and the end of
\* Sync.start. The faults are those that happen to a sync under way.
Syncing(r) == pc[r] \notin {"idle", "locked", "ret", "catch", "finally", "done"}

\* The connection closes unsolicited (network drop, server close).
connectionDrops ==
  /\ conn = "Connected"
  /\ \E r \in Runs : Syncing(r)
  /\ faults < MaxFaults
  /\ faults' = faults + 1
  /\ ConnectionClose(pc, mutex)
  /\ UNCHANGED <<closeHandlers, sendItemsHandler, storedDeviceId, autoSyncing, handlerVars, opt, ccFrom, deviceId, log, sendVars, count, outcome>>

\* SyncManager.stop -> Sync.cancel: connection.stop() (on a disconnected
\* connection it changes nothing).
cancel ==
  /\ conn # "Disconnected"
  /\ \E r \in Runs : Syncing(r)
  /\ faults < MaxFaults
  /\ faults' = faults + 1
  /\ ConnectionClose(pc, mutex)
  /\ UNCHANGED <<closeHandlers, sendItemsHandler, storedDeviceId, autoSyncing, handlerVars, opt, ccFrom, deviceId, log, sendVars, count, outcome>>

\* ------------------------------------------------------- specifications
\* What one caller of SyncManager.start can do next, with its options drawn
\* from O, its server errors from E and its Collector's batch counts from N.
RunStep(r, O, E, N) ==
  \/ acquireLock(r, O) \/ start(r, O) \/ syncGate(r) \/ userGate(r)
  \/ checkConnection(r) \/ startSettles(r) \/ connectTimeout(r)
  \/ initUnregister(r) \/ initRegister(r) \/ initGet(r)
  \/ fetch(r) \/ fetchResponse(r) \/ serverError(r, E)
  \/ send(r, N) \/ sendNextBatch(r) \/ pushItem(r) \/ pushAcknowledged(r)
  \/ sendCompleted(r)
  \/ stop(r) \/ autoSyncGate(r) \/ startReturns(r) \/ startCatches(r)
  \/ acquireLockFinally(r)

\* What the server, the handler and the environment can do next.
EnvStep ==
  \/ \E c \in MainChunks : serverSendItems(c, MaxChunks)
  \/ onSendItems \/ onSendItemsProcessed \/ onSendItemsFailed
  \/ connectionDrops \/ cancel

\* Spec: one caller, every input. (With one caller no checkConnection finds
\* the connection connecting: the caller whose attempt timed out has failed.
\* So checkConnectionStart and lateStartSettles are left to SpecConc.)
Next ==
  \/ RunStep(1, Options, HubErrors, 0..MaxBatches)
  \/ EnvStep

Spec == Init /\ [][Next]_vars

\* SpecConc: two callers at once on the same connection, each a plain send
\* (no force, no lock) of one batch that the server does not fail.
ConcOptions == { o \in Options : ~o.force /\ ~o.lock /\ o.type = "send" }
NextConc ==
  \/ \E r \in Runs :
       \/ start(r, ConcOptions) \/ syncGate(r) \/ userGate(r)
       \/ checkConnection(r) \/ checkConnectionStart(r) \/ startSettles(r)
       \/ connectTimeout(r)
       \/ initRegister(r) \/ initGet(r)
       \/ send(r, {1}) \/ sendNextBatch(r) \/ pushItem(r) \/ pushAcknowledged(r)
       \/ sendCompleted(r)
       \/ stop(r) \/ autoSyncGate(r) \/ startReturns(r) \/ startCatches(r)
  \/ lateStartSettles
  \/ connectionDrops \/ cancel

SpecConc == Init /\ [][NextConc]_vars

\* SpecCancel: one caller that sends, on a connection that closes only when
\* cancel is called.
CancelOptions == { o \in Options : ~o.lock /\ o.type = "send" }
NextCancel ==
  \/ start(1, CancelOptions) \/ syncGate(1) \/ userGate(1)
  \/ checkConnection(1) \/ startSettles(1) \/ connectTimeout(1)
  \/ initUnregister(1) \/ initRegister(1) \/ initGet(1)
  \/ send(1, 0..MaxBatches) \/ sendNextBatch(1) \/ pushItem(1) \/ pushAcknowledged(1)
  \/ sendCompleted(1)
  \/ stop(1) \/ autoSyncGate(1) \/ startReturns(1) \/ startCatches(1)
  \/ cancel

SpecCancel == Init /\ [][NextCancel]_vars

\* Where a full sync waits for the answer to its RequestFetch (a state of
\* Spec), with chunk c received.
FetchWaiting(c) ==
  /\ conn = "Connected"
  /\ startsInFlight = 0
  /\ mutex = NoRun
  /\ closeHandlers = 1
  /\ sendItemsHandler = 1
  /\ storedDeviceId = TRUE
  /\ autoSyncing = TRUE
  /\ syncAbortedLastClose = 0
  /\ faults = 0
  /\ inbox = c
  /\ hpc = "idle"
  /\ hOwner = NoRun
  /\ chunks = IF c = NoChunk THEN 0 ELSE 1
  /\ lastPut = [chunk |-> NoChunk, items |-> <<>>, calls |-> <<>>, deserialized |-> <<>>]
  /\ pc = [r \in Runs |-> IF r = 1 THEN "fetch_wait" ELSE "idle"]
  /\ opt = [r \in Runs |-> [type |-> "full", force |-> FALSE, lock |-> FALSE]]
  /\ ccFrom = [r \in Runs |-> IF r = 1 THEN "fetch" ELSE "init"]
  /\ deviceId = [r \in Runs |-> r = 1]
  /\ log = [r \in Runs |->
             IF r = 1 THEN <<Ev("start.autoSync.start", 0), Ev("connection.start", 0),
                             Ev("devices.get", 1), Ev("init", 0), Ev("RequestFetch", 0)>>
             ELSE <<>>]
  /\ nBatches = [r \in Runs |-> 0]
  /\ cursor = [r \in Runs |-> 0]
  /\ isSyncInitialized = [r \in Runs |-> FALSE]
  /\ done = [r \in Runs |-> 0]
  /\ acks = [r \in Runs |-> 0]
  /\ count = [r \in Runs |-> 0]
  /\ err = [r \in Runs |-> NoErr]
  /\ outcome = [r \in Runs |-> NoOutcome]

\* SpecItems: the "SendItems" handler on every chunk the server can send, on a
\* connection that may drop before or while the chunk is handled.
InitItems == \E c \in AllChunks : FetchWaiting(c)

NextItems ==
  \/ onSendItems
  \/ onSendItemsProcessed
  \/ onSendItemsFailed
  \/ connectionDrops

SpecItems == InitItems /\ [][NextItems]_vars

\* SpecFetch: one fetch, from its RequestFetch to the answer or to the drop of
\* the connection, in which the server streams up to MaxStream chunks.
InitFetch == FetchWaiting(NoChunk)

NextFetch ==
  \/ \E c \in StreamChunks : serverSendItems(c, MaxStream)
  \/ onSendItems
  \/ onSendItemsProcessed
  \/ onSendItemsFailed
  \/ fetchResponse(1)
  \/ connectionDrops

SpecFetch == InitFetch /\ [][NextFetch]_vars

\* ------------------------------------------------------------ properties
\* What a run's log holds.
Has(r, e) == \E i \in 1..Len(log[r]) : log[r][i].ev = e
\* Every e2 in the log of r has an e1 before it.
Before(r, e1, e2) ==
  \A j \in 1..Len(log[r]) :
    log[r][j].ev = e2 => \E i \in 1..(j - 1) : log[r][i].ev = e1
\* Every event of S in the log of r has an e1 before it.
BeforeAll(r, e1, S) ==
  \A j \in 1..Len(log[r]) :
    log[r][j].ev \in S => \E i \in 1..(j - 1) : log[r][i].ev = e1
\* The events of r after its first e.
After(r, e) ==
  { log[r][j].ev : j \in { k \in 1..Len(log[r]) :
                             \E i \in 1..(k - 1) : log[r][i].ev = e } }

\* The messages send emits, and what a run has emitted of them, in order.
PushMessages == {"InitializePush", "PushItems", "PushCompleted"}
Emitted(r) == SelectSeq(log[r], LAMBDA x : x.ev \in PushMessages)
\* send has returned v (1: true, 0: false).
SendReturned(r, v) == \E i \in 1..Len(log[r]) : log[r][i] = Ev("send", v)
\* send has begun and is over: it returned, or it threw.
SendOver(r) ==
  Has(r, "collect") /\ pc[r] \in {"stop", "gate2", "ret", "catch", "finally", "done"}
\* InitializePush, PushItems for the batches 1..n in order, PushCompleted.
CompleteSequence(m, n) ==
  /\ Len(m) = n + 2
  /\ m[1] = Ev("InitializePush", 0)
  /\ \A i \in 1..n : m[i + 1] = Ev("PushItems", i)
  /\ m[n + 2] = Ev("PushCompleted", 0)
\* A beginning of such a sequence that stops short of PushCompleted.
OpenSequence(m) ==
  \/ m = <<>>
  \/ /\ m[1] = Ev("InitializePush", 0)
     /\ \A i \in 2..Len(m) : m[i] = Ev("PushItems", i - 1)

\* C1 (as amended): a send that returns has emitted nothing and returns false
\* (exactly when the Collector yielded no batch), or has emitted InitializePush,
\* one PushItems per batch and PushCompleted, and returns true; InitializePush
\* goes out once, before the first batch. A send that has not returned, or
\* that threw, has emitted a beginning of that sequence without PushCompleted.
SendEmitsWholeSequenceOrPrefix ==
  \A r \in Runs :
    LET m == Emitted(r)
    IN  /\ SendReturned(r, 0) => m = <<>> /\ nBatches[r] = 0
        /\ SendReturned(r, 1) => nBatches[r] >= 1 /\ CompleteSequence(m, nBatches[r])
        /\ (~SendReturned(r, 0) /\ ~SendReturned(r, 1)) =>
             OpenSequence(m) /\ Len(m) <= nBatches[r] + 1

\* C1 witness: a send of two batches has returned true.
SendOfTwoBatchesReturned == \E r \in Runs : SendReturned(r, 1) /\ nBatches[r] = 2

\* C1 as stated: every send that is over has emitted nothing and returned
\* false, or the whole sequence and returned true.
SendEmitsNothingOrWholeSequence ==
  \A r \in Runs :
    SendOver(r) =>
      \/ Emitted(r) = <<>> /\ SendReturned(r, 0)
      \/ CompleteSequence(Emitted(r), nBatches[r]) /\ SendReturned(r, 1)

\* The PushItems invocations of a run, in order.
Submitted(r) == SelectSeq(log[r], LAMBDA x : x.ev = "PushItems")

\* C2: the batches are submitted in the order the Collector yields them, each
\* once, and a batch only when every batch before it has been acknowledged; an
\* acknowledgment, accepted or not, ends its turn of the loop, so a send that
\* returns has submitted every batch.
BatchesPushedOnceInOrder ==
  \A r \in Runs :
    /\ \A i \in 1..Len(Submitted(r)) : Submitted(r)[i].n = i
    /\ Len(Submitted(r)) <= nBatches[r]
    /\ Len(Submitted(r)) - acks[r] \in {0, 1}
    /\ pc[r] = "push_wait" => Len(Submitted(r)) = acks[r] + 1
    /\ cursor[r] = acks[r]
    /\ done[r] <= acks[r]
    /\ (SendReturned(r, 0) \/ SendReturned(r, 1)) => Len(Submitted(r)) = nBatches[r]

\* C2 witness: the first batch was not accepted and the second has been
\* submitted all the same.
SecondBatchAfterRefusedFirst ==
  \E r \in Runs : acks[r] = 1 /\ done[r] = 0 /\ Len(Submitted(r)) = 2

\* C3: nothing is requested or pushed before init has resolved a device id; a
\* full sync collects and pushes only after fetch has returned; finalize comes
\* after the phases the type selects; a fetch emits no push message and a send
\* no RequestFetch.
PhasesInOrder ==
  \A r \in Runs :
    /\ BeforeAll(r, "init",
                 PushMessages \cup {"RequestFetch", "collect", "fetch", "lastSynced"})
    /\ Has(r, "init") => deviceId[r]
    /\ opt[r].type = "full" => BeforeAll(r, "fetch", PushMessages \cup {"collect"})
    /\ Before(r, "RequestFetch", "put")
    /\ opt[r].type \in {"fetch", "full"} => Before(r, "fetch", "lastSynced")
    /\ opt[r].type \in {"send", "full"} => Before(r, "send", "lastSynced")
    /\ Before(r, "lastSynced", "syncCompleted")
    /\ Has(r, "lastSynced") =>
         After(r, "lastSynced") \subseteq {"syncCompleted", "lock.autoSync.start"}
    /\ opt[r].type = "fetch" => \A e \in PushMessages \cup {"collect"} : ~Has(r, e)
    /\ opt[r].type = "send" => ~Has(r, "RequestFetch") /\ ~Has(r, "fetch")

\* C3 witness: a full sync has fetched, pushed and finalized.
FullSyncFinalized ==
  \E r \in Runs :
    /\ opt[r].type = "full"
    /\ Has(r, "RequestFetch") /\ Has(r, "PushItems") /\ Has(r, "lastSynced")

\* What a run does on the network and at finalize.
NetworkWork ==
  PushMessages \cup {"connection.start", "devices.unregister", "devices.register",
                     "RequestFetch", "put", "collect", "lastSynced", "syncCompleted"}
\* The run was stopped at the sync gate, or found no user.
GateClosed(r) == Has(r, "disabled")
NoUser(r) == Has(r, "nouser")

\* C4: a run stopped at the sync gate, or one that finds no user, connects to
\* nothing, registers no device, requests and pushes nothing, does not finalize
\* and returns without an error; the step at the closed gate leaves the
\* connection disconnected, the step that finds no user leaves it as it is.
ClosedGateDoesNoWork ==
  [][\A r \in Runs :
       /\ (GateClosed(r) \/ NoUser(r))' =>
            /\ \A e \in NetworkWork : ~Has(r, e)'
            /\ err'[r] = NoErr
            /\ pc'[r] \in {"ret", "finally", "done"}
            /\ outcome'[r].kind \in {"none", "returned"}
            /\ pc'[r] \in {"finally", "done"} => outcome'[r].kind = "returned"
       /\ (~GateClosed(r) /\ GateClosed(r)') => conn' = "Disconnected"
       /\ (~NoUser(r) /\ NoUser(r)') => conn' = conn /\ startsInFlight' = startsInFlight
    ]_vars

\* C4 witness: a run found the gate closed while the other caller's connection
\* was up, and has returned.
ClosedGateRunReturned ==
  \E r \in Runs :
    /\ GateClosed(r) /\ pc[r] = "done" /\ outcome[r].kind = "returned"
    /\ \E q \in Runs \ {r} : pc[q] = "done" /\ err[q] = InvocationCanceled

\* SyncManager.start has failed and settled.
Failed(r) == err[r] # NoErr /\ outcome[r].kind # "none"
\* The account was confirmed when the failure was caught.
AccountConfirmed(r) == \E i \in 1..Len(log[r]) : log[r][i] = Ev("catch", 1)
\* The forced token refreshes of a run.
Refreshes(r) == Len(SelectSeq(log[r], LAMBDA x : x = Ev("refreshToken", 1)))
\* What start gave its caller for the failure e: swallowed means one forced
\* token refresh and false.
FailureHandled(r, swallowed) ==
  LET e == err[r]
  IN  IF swallowed
      THEN /\ outcome[r] = [kind |-> "returned", value |-> FALSE, error |-> NoErr]
           /\ Refreshes(r) = 1
      ELSE /\ outcome[r].kind = "raised"
           /\ outcome[r].error = IF isHubException(e) THEN Err(errorText(e)) ELSE e
           /\ Refreshes(r) = 0

\* C5 (as amended): start raises every failure but one kind: a remote-reported
\* exception whose extracted text holds the email-confirmation text or the
\* text "Invalid token.", on a confirmed account, gets one forced token
\* refresh and false. Any other remote-reported exception is raised with the
\* extracted text only, anything else as it is, with no refresh.
StartRaisesButStaleToken ==
  \A r \in Runs :
    /\ ~Has(r, "catch") => Refreshes(r) = 0
    /\ Failed(r) =>
         FailureHandled(r, /\ isHubException(err[r])
                           /\ \/ Includes(errorText(err[r]), <<CONFIRM>>)
                              \/ Includes(errorText(err[r]), <<INVALID>>)
                           /\ AccountConfirmed(r))

\* C5 witness: an "Invalid token." failure on a confirmed account was answered
\* with a refresh and false.
InvalidTokenSwallowed ==
  \E r \in Runs :
    /\ Failed(r) /\ Includes(errorText(err[r]), <<INVALID>>)
    /\ outcome[r].kind = "returned" /\ Refreshes(r) = 1

\* C5 as stated: the only failure not raised is the stale email-confirmation
\* error on a confirmed account.
StartRaisesButStaleConfirmation ==
  \A r \in Runs :
    Failed(r) =>
      FailureHandled(r, /\ isHubException(err[r])
                        /\ Includes(errorText(err[r]), <<CONFIRM>>)
                        /\ AccountConfirmed(r))

\* What the "SendItems" handler of a run writes to its log.
HandlerEvents == {"discarded", "put", "progress", "processChunk.failed"}

\* C6: acquireLock calls the scheduler's stop before the callback begins, and
\* when acquireLock ends its last act was to call the scheduler's start, once,
\* after the callback returned or threw; what the callback threw is what the caller gets.
LockBracketsCallback ==
  \A r \in Runs :
    opt[r].lock =>
      /\ pc[r] # "idle" => log[r][1] = Ev("lock.autoSync.stop", 0)
      /\ pc[r] = "locked" => Len(log[r]) = 1
      /\ Has(r, "lock.autoSync.start") => pc[r] = "done"
      /\ pc[r] = "done" =>
           /\ Has(r, "lock.autoSync.start")
           /\ After(r, "lock.autoSync.start") \subseteq HandlerEvents
           /\ outcome[r].kind # "none"
           /\ (Has(r, "catch") /\ Refreshes(r) = 0) =>
                outcome[r].kind = "raised" /\ outcome[r].error # NoErr
           /\ ~Has(r, "catch") => outcome[r].kind = "returned"

\* C6 witness: acquireLock has ended after its callback threw.
LockEndedAfterFailure ==
  \E r \in Runs :
    /\ opt[r].lock /\ pc[r] = "done" /\ outcome[r].kind = "raised"
    /\ Has(r, "lock.autoSync.start")

\* The run is inside checkConnection with the mutex: stopping, or starting.
Connecting(r) == pc[r] \in {"cc_stop", "cc_start"}

\* C7: at most one caller is inside checkConnection's body and at most one
\* connection.start is in flight; while a caller's attempt is in flight the
\* others stay at the mutex; and a caller that passes the mutex with the
\* connection connected starts nothing.
ConnectSingleFlight ==
  [][/\ Cardinality({ r \in Runs : Connecting(r) })' <= 1
     /\ startsInFlight' <= 1
     /\ \A r \in Runs :
          /\ Connecting(r)' => mutex' = r
          /\ (pc[r] = "cc_acquire" /\ \E q \in Runs \ {r} : Connecting(q)) =>
               pc'[r] = "cc_acquire"
          /\ (pc[r] = "cc_acquire" /\ pc'[r] # "cc_acquire" /\ conn = "Connected") =>
               /\ pc'[r] = CCReturnPc(r)
               /\ log'[r] = log[r]
               /\ startsInFlight' = startsInFlight /\ conn' = conn
    ]_vars

\* C7 witness: the second caller has passed checkConnection, without a start of
\* its own, on the connection the first caller's attempt brought up.
SecondCallerReusedConnection ==
  \E r \in Runs : \E q \in Runs \ {r} :
    /\ Has(r, "connection.start") /\ ~Has(q, "connection.start")
    /\ Has(q, "PushItems")

\* The events of a run that persist or push a batch, and finalize.
BatchWork == PushMessages \cup {"put"}
Finalize == {"lastSynced", "syncCompleted"}

\* C8 (as amended): after a connect attempt has timed out the run fails with
\* the error "Could not connect to the Sync server. Please try again." (the
\* timeout error is logged, not raised); the run persists and pushes nothing
\* from then on and does not finalize; and when the attempt is the run's first
\* (in init) no batch has been persisted or pushed at all.
TimeoutFailsRunAsUnavailable ==
  \A r \in Runs :
    Has(r, "timeout") =>
      /\ pc[r] \in {"catch", "finally", "done"}
      /\ err[r] = SyncUnavailable
      /\ outcome[r].kind # "none" =>
           outcome[r] = [kind |-> "raised", value |-> FALSE, error |-> SyncUnavailable]
      /\ After(r, "timeout") \cap (BatchWork \cup Finalize \cup {"timeout"}) = {}
      /\ \A e \in Finalize : ~Has(r, e)
      /\ ~Has(r, "init") => \A e \in BatchWork : ~Has(r, e)

\* C8 witness: a run whose connect attempt timed out has failed.
TimedOutRunFailed ==
  \E r \in Runs : Has(r, "timeout") /\ outcome[r].kind = "raised"

\* C8 as stated: the run fails with the timeout error, with no batch persisted
\* or pushed and no finalize.
TimeoutFailsRunAsTimeout ==
  \A r \in Runs :
    (Has(r, "timeout") /\ outcome[r].kind # "none") =>
      /\ outcome[r].kind = "raised"
      /\ outcome[r].error = promiseTimeout(CONNECT_TIMEOUT_MS)
      /\ \A e \in BatchWork \cup Finalize : ~Has(r, e)

\* The chunk of the latest put, the ids of the items put, and for the k-th item
\* of the chunk: the migrateItem calls made and what migration answered them.
PutChunk == lastPut.chunk
PutIds == { lastPut.items[k].id : k \in 1..Len(lastPut.items) }
Calls(k) == lastPut.calls[k]
Answer(k, j) == IF j = 1 THEN PutChunk.items[k].mig1 ELSE PutChunk.items[k].mig2
TrashWrapped(item) == item.type = "trash" /\ item.itemType # ""
BothPasses(item) == << <<"trash", "sync">>, <<item.itemType, "backup">> >>

\* C9 as stated: no item whose resolved type is topic, settings or empty is
\* handed to a put, whether or not it carries a cipher marker.
NoUnresolvedTypePut ==
  \A k \in 1..Len(lastPut.items) :
    LET item == lastPut.items[k]
        type == IF TrashWrapped(item) THEN item.itemType ELSE item.type
    IN  type \notin {"topic", "settings", ""}

\* C10 (as amended): an item for which a migration pass answers skip is not
\* put, so a chunk of N items puts at most N. An item with a cipher marker is
\* not migrated at all. Of the others, a trash-wrapped item with an inner type
\* gets the pass for the wrapper type in context sync and, unless that one
\* answered skip, the pass for the inner type in context backup; any other
\* item gets the one pass for its type in context sync.
SkippedItemsNotPut ==
  PutChunk # NoChunk =>
    /\ Len(lastPut.items) <= Len(PutChunk.items)
    /\ PutIds \subseteq 1..Len(PutChunk.items)
    /\ \A k \in 1..Len(PutChunk.items) :
         LET item == PutChunk.items[k]
         IN  /\ (\E j \in 1..Len(Calls(k)) : Answer(k, j) = "skip") => k \notin PutIds
             /\ item.cipher => Calls(k) = <<>>
             /\ (~item.cipher /\ ~TrashWrapped(item)) =>
                  Calls(k) = << <<item.type, "sync">> >>
             /\ (~item.cipher /\ TrashWrapped(item)) =>
                  Calls(k) = IF item.mig1 = "skip" THEN << <<"trash", "sync">> >>
                             ELSE BothPasses(item)

\* C10 witness: of a chunk of two, a trashed note whose second pass answered
\* skip was left out and the other item was put.
InnerPassSkipDropsItem ==
  /\ Len(PutChunk.items) = 2 /\ PutIds = {2}
  /\ TrashWrapped(PutChunk.items[1]) /\ Calls(1) = BothPasses(PutChunk.items[1])
  /\ Answer(1, 1) # "skip" /\ Answer(1, 2) = "skip"

\* C10 as stated: every trash-wrapped item with an inner type gets both
\* passes (the second unless the first answered skip), and a skip drops it.
TrashWrappedGetsBothPasses ==
  PutChunk # NoChunk =>
    \A k \in 1..Len(PutChunk.items) :
      LET item == PutChunk.items[k]
      IN  /\ (\E j \in 1..Len(Calls(k)) : Answer(k, j) = "skip") => k \notin PutIds
          /\ TrashWrapped(item) =>
               Calls(k) = IF item.mig1 = "skip" THEN << <<"trash", "sync">> >>
                          ELSE BothPasses(item)

\* The run found no encryption key when its fetch began.
KeyMissing(r) == Has(r, "userSessionExpired")

\* C11: a fetch that finds no encryption key publishes userSessionExpired,
\* registers no SendItems handler, issues no RequestFetch and returns: the run
\* goes on to send (type full) and to finalize, and any error it meets comes
\* from the send step.
MissingKeyAbortsFetchOnly ==
  \A r \in Runs :
    KeyMissing(r) =>
      /\ ~Has(r, "RequestFetch") /\ ~Has(r, "put") /\ ~Has(r, "progress")
      /\ sendItemsHandler # r
      /\ Before(r, "userSessionExpired", "fetch") /\ Has(r, "fetch")
      /\ opt[r].type = "full" => (pc[r] = "send_begin" \/ Has(r, "collect"))
      /\ opt[r].type = "fetch" =>
           err[r] = NoErr /\ pc[r] \in {"stop", "gate2", "ret", "finally", "done"}
      /\ err[r] # NoErr => Has(r, "collect")
      /\ (err[r] = NoErr /\ pc[r] \in {"gate2", "ret", "finally", "done"}) =>
           Has(r, "lastSynced") /\ Has(r, "syncCompleted")
      /\ (err[r] = NoErr /\ pc[r] \in {"finally", "done"}) =>
           outcome[r] = [kind |-> "returned", value |-> TRUE, error |-> NoErr]

\* C11 witness: a full sync without an encryption key has pushed a batch and
\* finalized.
KeylessFullSyncFinalized ==
  \E r \in Runs :
    /\ KeyMissing(r) /\ opt[r].type = "full"
    /\ Has(r, "PushItems") /\ Has(r, "lastSynced")

\* How often the log of r holds the event e.
Count(r, e) == Len(SelectSeq(log[r], LAMBDA x : x.ev = e))
\* The run has got through init and the fetch and send steps its type selects,
\* without an error, and through stop.
Finalized(r) ==
  Has(r, "init") /\ err[r] = NoErr /\ pc[r] \in {"gate2", "ret", "finally", "done"}

\* C12: a run that gets through its fetch and send steps without an error
\* writes lastSynced and then publishes syncCompleted, each exactly once,
\* whatever was fetched or sent; no run does either twice, and none before its
\* steps are over.
FinalizeOncePerCompletedRun ==
  \A r \in Runs :
    /\ Finalized(r) =>
         /\ Count(r, "lastSynced") = 1 /\ Count(r, "syncCompleted") = 1
         /\ Before(r, "lastSynced", "syncCompleted")
    /\ Count(r, "lastSynced") <= 1 /\ Count(r, "syncCompleted") <= 1
    /\ Has(r, "syncCompleted") => Has(r, "lastSynced")
    /\ Has(r, "lastSynced") => Finalized(r)

\* C12 witness: a full sync that fetched a chunk and had nothing to send
\* (send returned false) has published syncCompleted.
FetchOnlyFullSyncCompleted ==
  \E r \in Runs :
    /\ opt[r].type = "full" /\ Has(r, "put") /\ SendReturned(r, 0)
    /\ Count(r, "PushItems") = 0 /\ Count(r, "syncCompleted") = 1

\* The device registry calls of a run, in order.
DeviceCalls(r) ==
  SelectSeq(log[r], LAMBDA x : x.ev \in {"devices.unregister", "devices.register",
                                         "devices.get"})
Unregister == Ev("devices.unregister", 0)
Register == Ev("devices.register", 0)
Get(found) == Ev("devices.get", IF found THEN 1 ELSE 0)
\* init is over: it returned, or it threw the device-not-registered error.
InitReturned(r) == Has(r, "init")
InitThrewNotRegistered(r) == err[r] = DeviceNotRegistered

\* C13: with isForceSync init unregisters and registers before it reads the
\* device id; without it init registers only after a read that found no id,
\* and reads again. Once connected, init returns an id or throws the
\* device-not-registered error, and a run whose init returned no id issues no
\* RequestFetch and no push message.
InitResolvesDeviceId ==
  \A r \in Runs :
    LET calls == DeviceCalls(r)
        forced == IF opt[r].force THEN <<Unregister, Register>> ELSE <<>>
    IN  /\ InitReturned(r) =>
             /\ deviceId[r]
             /\ calls \in { forced \o <<Get(TRUE)>>,
                            forced \o <<Get(FALSE), Register, Get(TRUE)>> }
        /\ InitThrewNotRegistered(r) =>
             /\ ~InitReturned(r) /\ ~deviceId[r]
             /\ calls = forced \o <<Get(FALSE), Register, Get(FALSE)>>
        /\ (~InitReturned(r) /\ ~InitThrewNotRegistered(r)) =>
             \E n \in 0..5 :
               /\ n <= Len(forced) + 3 /\ Len(calls) = n
               /\ calls = SubSeq(forced \o <<Get(FALSE), Register, Get(FALSE)>>, 1, n)
        /\ pc[r] \in {"init_unreg", "init_reg", "init_get", "init_reg2", "init_get2"} =>
             err[r] = NoErr
        /\ ~InitReturned(r) =>
             \A e \in PushMessages \cup {"RequestFetch", "collect"} : ~Has(r, e)

\* C13 witness: without isForceSync the first read found no id, the device was
\* registered, the id read again, and the run went on to fetch.
RegisteredAfterEmptyRead ==
  \E r \in Runs :
    /\ ~opt[r].force /\ InitReturned(r) /\ Has(r, "RequestFetch")
    /\ DeviceCalls(r) = <<Get(FALSE), Register, Get(TRUE)>>

\* The fetch step of r is under way: from its checkConnection to the answer of
\* RequestFetch.
Fetching(r) ==
  \/ pc[r] \in {"fetch_key", "fetch_wait"}
  \/ pc[r] \in {"cc_acquire", "cc_stop", "cc_start"} /\ ccFrom[r] = "fetch"

\* C14 as stated: a run issues at most one RequestFetch, and once its fetch
\* step has ended, by an answer or by a failure, its SendItems handler is no
\* longer registered.
NoHandlerSurvivesFetch ==
  \A r \in Runs :
    /\ Count(r, "RequestFetch") <= 1
    /\ sendItemsHandler = r => Fetching(r)

\* The items deserializeItem returned for the latest put chunk.
Deserialized == lastPut.deserialized
\* A migration pass that ran on the k-th item of the chunk reported a change.
ChangeReported(k) == \E j \in 1..Len(Calls(k)) : Answer(k, j) = "changed"

\* C15 as stated: an item that is not dropped is returned with remote=true,
\* and with synced=false exactly when a migration pass that ran on it reported
\* a change, be it the wrapper pass or the inner-type pass.
AnyChangeMarksUnsynced ==
  \A i \in 1..Len(Deserialized) :
    LET item == Deserialized[i]
    IN  /\ item.remote
        /\ item.synced = ~ChangeReported(item.id)

\* processChunk failed for a batch delivered during the fetch step of r:
\* before the fetch step returned or the run's failure was caught.
BatchFailedInFetch(r) ==
  \E i \in 1..Len(log[r]) :
    /\ log[r][i].ev = "processChunk.failed"
    /\ \A j \in 1..(i - 1) : log[r][j].ev \notin {"fetch", "catch"}

\* C16 as stated: when the processing of a batch fails during fetch the run is
\* aborted: it emits no push message afterwards, writes no lastSynced,
\* publishes no syncCompleted, and start ends in its catch block with a
\* failure (which it raises, but for the stale-token texts).
BatchFailureAbortsRun ==
  \A r \in Runs :
    BatchFailedInFetch(r) =>
      /\ After(r, "processChunk.failed") \cap (PushMessages \cup Finalize) = {}
      /\ pc[r] = "done" => Failed(r)

\* The step is the entry of a registered "SendItems" handler with a batch.
HandlerEntry ==
  /\ inbox # NoChunk /\ hpc = "idle" /\ sendItemsHandler # NoRun
  /\ inbox' # inbox \/ hpc' # hpc
\* The step puts a batch.
PutStep == \E r \in Runs : Count(r, "put")' > Count(r, "put")

\* C17: a handler entered while the connection is not connected answers false
\* and ends there: processChunk does not begin, nothing is put, the count
\* stays, no progress is reported. processChunk begins only on a connected
\* connection, and only a batch whose processing has begun is put.
DisconnectedBatchDiscarded ==
  [][ /\ (HandlerEntry /\ conn # "Connected") =>
           /\ hpc' = "idle" /\ inbox' = NoChunk
           /\ lastPut' = lastPut /\ count' = count
           /\ log' = [log EXCEPT ![sendItemsHandler] = Append(@, Ev("discarded", 0))]
      /\ (hpc = "idle" /\ hpc' = "processing") => conn = "Connected"
      /\ (PutStep \/ lastPut' # lastPut \/ count' # count) => hpc = "processing"
    ]_vars

\* A batch was discarded by a handler that found the connection closed.
BatchDiscarded ==
  \E r \in Runs :
    /\ Has(r, "discarded") /\ conn = "Disconnected"
    /\ lastPut.chunk = NoChunk /\ count[r] = 0 /\ ~Has(r, "progress")

\* The download progress a run reported last (0: none yet).
Progress(r) ==
  LET p == SelectSeq(log[r], LAMBDA x : x.ev = "progress")
  IN  IF p = <<>> THEN 0 ELSE p[Len(p)].n
\* The step reports download progress for r.
ProgressStep(r) == Count(r, "progress")' > Count(r, "progress")

\* C18: the handler processes the chunk the server delivered, one at a time;
\* the progress it reports after a chunk is the progress reported before plus
\* the chunk's items, from 0 and never less than before; it is reported in the
\* step after the chunk's items were merged and put (a settings chunk is not
\* put), so before the next chunk's processing begins; and the count is what
\* was last reported.
ProgressIsRunningTotal ==
  [][ \A r \in Runs :
        /\ ProgressStep(r) =>
             LET l == log'[r]
             IN  /\ hpc = "processing" /\ hOwner = r /\ hpc' = "idle"
                 /\ l[Len(l)] = Ev("progress", Progress(r) + Len(inbox.items))
                 /\ Progress(r)' >= Progress(r)
                 /\ count'[r] = Progress(r)'
                 /\ inbox.type # "settings" =>
                      /\ lastPut'.chunk = inbox
                      /\ l = log[r] \o <<Ev("put", Len(lastPut'.items)), l[Len(l)]>>
                 /\ inbox' = NoChunk
        /\ Count(r, "put")' > Count(r, "put") => ProgressStep(r)
        /\ count'[r] # count[r] => ProgressStep(r)
    ]_vars

\* Two chunks have been processed in one fetch, and the progress reported
\* after the second is more than after the first.
SecondChunkCounted ==
  \E r \in Runs :
    LET p == SelectSeq(log[r], LAMBDA x : x.ev = "progress")
    IN  /\ Len(p) = 2 /\ p[1].n > 0 /\ p[2].n > p[1].n
        /\ Count(r, "put") = 2
        /\ count[r] = p[2].n

\* The run is inside checkConnection.
InCheckConnection(r) == pc[r] \in {"cc_acquire", "cc_stop", "cc_start"}

\* C19 as stated: a connect attempt that fails makes checkConnection raise the
\* sync-unavailable error, and checkConnection returns to its caller only with
\* the connection connected.
CheckConnectionReturnsConnected ==
  [][ \A r \in Runs :
        /\ (pc[r] = "cc_start" /\ pc'[r] # "cc_start" /\ conn' # "Connected") =>
             pc'[r] = "catch" /\ err'[r] = SyncUnavailable
        /\ (InCheckConnection(r) /\ pc'[r] = CCReturnPc(r)) => conn' = "Connected"
    ]_vars

\* C20 as stated: once acquireLock has called the scheduler's stop, nothing
\* calls the scheduler's start before the callback has ended (the call in
\* acquireLock's finally block is the first), so the scheduler stays stopped
\* while the callback runs.
SchedulerStoppedDuringCallback ==
  \A r \in Runs :
    /\ "start.autoSync.start" \notin After(r, "lock.autoSync.stop")
    /\ (opt[r].lock /\ pc[r] \notin {"idle", "done"}) => ~autoSyncing

\* The run connected again inside its send step: its connection was closed
\* after send began (in SpecCancel: by cancel).
ReconnectedInSend(r) == "connection.start" \in After(r, "collect")
\* What the run did after the first connection.start of its send step.
AfterReconnect(r) ==
  LET s == log[r]
  IN  { s[k].ev : k \in { k \in 1..Len(s) :
          \E i, j \in 1..(k - 1) :
            i < j /\ s[i].ev = "collect" /\ s[j].ev = "connection.start" } }

\* C21 as stated: a run whose connection cancel has stopped during its send
\* step does not reconnect and go on: it submits no PushItems and sends no
\* PushCompleted afterwards, and it ends with an error.
CancelEndsSend ==
  \A r \in Runs :
    ReconnectedInSend(r) =>
      /\ AfterReconnect(r) \cap {"PushItems", "PushCompleted"} = {}
      /\ pc[r] = "done" => Failed(r)

\* C22 as stated: however many runs have been started on the connection, one
\* close handler is registered with it, and a close publishes syncAborted
\* once.
OneAbortPerClose ==
  /\ closeHandlers <= 1
  /\ syncAbortedLastClose <= 1

\* SyncManager.start has returned true to its caller.
ReturnedTrue(r) == outcome[r].kind = "returned" /\ outcome[r].value

\* C23 as stated: start returns true only for a run that has written
\* lastSynced and published syncCompleted; a run stopped at the sync gate or
\* one that found no user does not return true.
TrueOnlyWhenFinalized ==
  \A r \in Runs :
    ReturnedTrue(r) =>
      /\ Has(r, "lastSynced") /\ Has(r, "syncCompleted")
      /\ ~GateClosed(r) /\ ~NoUser(r)

====
